---- MODULE Spec2Model ----
(***************************************************************************)
(* Active-user (session) lifecycle of the Kinvey JavaScript SDK: the User  *)
(* class (login, logout, signup, me, connect, disconnect, update), the     *)
(* UserStore.save payload rule and the active-user slot of the Client.     *)
(*                                                                         *)
(* Every User object is a process.  A lifecycle method runs synchronously  *)
(* up to its first suspension (a network request or a Promise.resolve()    *)
(* deferral) and each promise callback is one atomic step, so steps of     *)
(* different User objects interleave exactly at those suspension points.   *)
(* Promise#then0 (used by signup, disconnect and connect) comes from       *)
(* ./utils/promise, which is not part of the sources; it is read as then.  *)
(***************************************************************************)
EXTENDS Integers, Sequences, FiniteSets, TLC

\* ------------------------------------------------------------------ values

None == "none"                  \* JavaScript undefined
Null == [null |-> TRUE]         \* JavaScript null

Users == {"u1", "u2"}           \* the User objects of the application
Clients == {"c1", "c2"}         \* client contexts
sharedInstance == "c1"          \* Client.sharedInstance()

Ids == {"i1", "i2"}             \* _id values the backend hands out
Tokens == {"T1", "T2"}          \* _kmd.authtoken values
Providers == {"facebook", "kinveyAuth"}
Absent == "absent"              \* the key is not in the _socialIdentity map
IdentityTokens == {"", "k1"}    \* a falsy (empty) and a non-empty identity token

\* Bound on the length of the username and password strings that login is fed.
MaxLen == 2

Chars == {" ", "b"}
Strings == UNION {[1..n -> Chars] : n \in 0..MaxLen}
Undef == [undef |-> TRUE, s |-> <<>>]
Str(s) == [undef |-> FALSE, s |-> s]
MaybeStrings == {Undef} \cup {Str(s) : s \in Strings}

\* MobileIdentityConnect.identity, the provider refreshAuthToken can refresh.
micIdentity == "kinveyAuth"

\* The keys of data[_socialIdentity]: one per provider, and activeIdentity,
\* which names the provider the session was authenticated with.
Keys == Providers \cup {"activeIdentity"}

\* data[_socialIdentity]: a map from key to token; NoMap stands for an
\* undefined attribute, the all-Absent map for {}.
NoMap == [p \in Keys |-> "nomap"]
SIMaps ==
  {m \in [Keys -> IdentityTokens \cup Providers \cup {Absent}] :
     /\ \A p \in Providers : m[p] \in IdentityTokens \cup {Absent}
     /\ m["activeIdentity"] \in Providers \cup {Absent}}
EmptyMap == [p \in Keys |-> Absent]

\* User#data as built by `new User()`.
EmptyData ==
  [_id |-> None, authtoken |-> None, username |-> Undef, password |-> Undef,
   si |-> NoMap]

\* ------------------------------------------------------------ pure helpers

RECURSIVE TrimLeft(_)
TrimLeft(s) == IF s # <<>> /\ Head(s) = " " THEN TrimLeft(Tail(s)) ELSE s

RECURSIVE TrimRight(_)
TrimRight(s) ==
  IF s # <<>> /\ s[Len(s)] = " " THEN TrimRight(SubSeq(s, 1, Len(s) - 1)) ELSE s

\* String(x).trim()
trim(s) == TrimRight(TrimLeft(s))

\* JavaScript truthiness of a string-or-undefined value.
StrTruthy(x) == ~x.undef /\ x.s # <<>>

\* lodash isObject on a login argument: a data record, not a string.
isObject(x) == "undef" \notin DOMAIN x

\* JavaScript truthiness of an identity entry.
TokenTruthy(t) == t \notin {Absent, ""}

\* ------------------------------------------------------------------- state

VARIABLES
  data,                  \* data[u]: User#data of each User object
  pc,                    \* pc[u]: where the object's pending operation is suspended
  loc,                   \* loc[u]: arguments and locals of the pending operation
  activeUserData,        \* activeUserData[c]: the client's stored active user
  activeSocialIdentity,  \* activeSocialIdentity[c]: the client's identity pointer
  last,                  \* the step just taken: operation, outcome, request sent
  calls,                 \* number of operations the application has started
  kinvey                 \* the legacy global API: activeUser, activeUserReady,
                         \* the 'activeUser' storage entry, the calls of init

vars ==
  <<data, pc, loc, activeUserData, activeSocialIdentity, last, calls, kinvey>>

\* The state of the User class and of the Client.
userVars == <<data, pc, loc, activeUserData, activeSocialIdentity>>

\* Bound on the number of operations the application starts in one run.
MaxCalls == 2

\* Bound on the NotFoundError answers one connect call is given; the recursion
\* of connect (lines 612-616) has no bound of its own.
MaxHops == 2

\* The application starts an operation on the idle object u.
Begin(u) == pc[u] = "idle" /\ calls < MaxCalls /\ calls' = calls + 1

NoRequest == [kind |-> "none", body |-> Null]
Request(kind, body) == [kind |-> kind, body |-> body]

\* Locals of an operation; Idle is the value while no operation is pending.
\* notFounds, signups and retries count, within one connect call, the
\* NotFoundError answers it caught, the signup requests it sent and the times
\* it called itself again; hello tells whether the bridge library was loaded
\* (lines 24-28: only where a window exists).
Idle ==
  [op |-> "none", snap |-> Null, req |-> Null, identity |-> None, token |-> None,
   state |-> TRUE, meta |-> None, hello |-> TRUE, notFounds |-> 0,
   signups |-> 0, retries |-> 0]

\* The record of one step of operation `op` of object u.  outcome is
\* "pending" while the operation is suspended, "ok" when its promise
\* resolves, "null" when it returns null, and the error's name when it
\* rejects; ret names the value delivered, sent the kind of request the step
\* sent, resp the answer it handled, input the arguments of a login call or
\* what the checks of connectWithIdentity looked at,
\* client the context a setActiveUser call names.
Event(op, u, outcome, ret, sent, resp) ==
  [op |-> op, user |-> u, outcome |-> outcome, ret |-> ret, sent |-> sent.kind,
   resp |-> resp, input |-> Null, client |-> None, notFounds |-> 0,
   signups |-> 0, retries |-> 0]

\* The record of a step of connect: it also carries the counts of the call,
\* taken from its locals l.
ConnectEvent(u, l, outcome, ret, sent, resp) ==
  [Event("connect", u, outcome, ret, sent, resp)
     EXCEPT !.notFounds = l.notFounds, !.signups = l.signups,
            !.retries = l.retries]

Errors == {"NotFoundError", "NetworkError"}   \* rejections of a request

\* ------------------------------------------------- Client (active-user slot)

\* client.getActiveUserData(): the stored record, or null.
getActiveUserData(store, client) == store[client]

\* client.setActiveUserData(data): overwrite the slot of this client.
setActiveUserData(store, d, client) == [store EXCEPT ![client] = d]

\* ------------------------------------------------------- User (session core)

\* User.getActiveUser(client): the data of `new User(data)`, or null.
getActiveUser(store, client) ==
  LET d == getActiveUserData(store, client) IN IF d # Null THEN d ELSE Null

\* setActiveUser writing the slot of the shared client whatever client it is
\* given.
setActiveUserShared(store, d, client) ==
  setActiveUserData(store, d, sharedInstance)

\* User.setActiveUser(user, client): store user.toJSON(); the value returned is
\* User.getActiveUser(client) of the resulting store.
setActiveUser(store, d, client) == setActiveUserData(store, d, client)

\* user.setAsActiveUser()
setAsActiveUser(store, d) == setActiveUser(store, d, sharedInstance)

\* isActive without the comparison of the _id values.
isActiveAnyId(store, d) == store[sharedInstance] # Null

\* user.isActive() for a user whose data is d.
isActive(store, d) ==
  LET activeUser == getActiveUser(store, sharedInstance)
  IN activeUser # Null /\ activeUser._id = d._id

\* loginPayload without the trimming of lines 299-307.
loginPayloadUntrimmed(usernameOrData, password) ==
  IF isObject(usernameOrData)
  THEN usernameOrData
  ELSE [EmptyData EXCEPT !.username = usernameOrData, !.password = password]

\* login, lines 292-307: build the payload from the arguments and trim it.
loginPayload(usernameOrData, password) ==
  LET o == IF isObject(usernameOrData)
           THEN usernameOrData
           ELSE [EmptyData EXCEPT !.username = usernameOrData,
                                  !.password = password]
  IN IF o.si = NoMap
     THEN [o EXCEPT
             !.username = IF StrTruthy(@) THEN Str(trim(@.s)) ELSE @,
             !.password = IF StrTruthy(@) THEN Str(trim(@.s)) ELSE @]
     ELSE o

\* loginCheck without the check of lines 314-318.
loginCheckOwnOnly(store, d, payload) ==
  IF isActive(store, d) THEN "ActiveUserError"
  ELSE IF (~StrTruthy(payload.username) \/ ~StrTruthy(payload.password))
          /\ payload.si = NoMap
       THEN "KinveyError"
  ELSE "send"

\* loginCheck with the credential check of lines 320-325 asking for a
\* username only.
loginCheckUsernameOnly(store, d, payload) ==
  IF isActive(store, d) THEN "ActiveUserError"
  ELSE IF store[sharedInstance] # Null THEN "ActiveUserError"
  ELSE IF ~StrTruthy(payload.username) /\ payload.si = NoMap THEN "KinveyError"
  ELSE "send"

\* login, lines 309-325: the checks that precede the request.
loginCheck(store, d, payload) ==
  IF isActive(store, d) THEN "ActiveUserError"
  ELSE IF getActiveUser(store, sharedInstance) # Null THEN "ActiveUserError"
  ELSE IF (~StrTruthy(payload.username) \/ ~StrTruthy(payload.password))
          /\ payload.si = NoMap
       THEN "KinveyError"
  ELSE "send"

\* The authtoken the backend issues with each _id.
TokenOf == [i \in Ids |-> IF i = "i1" THEN "T1" ELSE "T2"]

\* The records the backend may answer a login or signup with: an _id and its
\* authtoken around the submitted username and identities.
UserRecords(payload) ==
  IF payload = Null THEN {} ELSE
  {[_id |-> i, authtoken |-> TokenOf[i], username |-> payload.username,
    password |-> Undef, si |-> payload.si] : i \in Ids}

\* user.login(usernameOrData, password): the synchronous part.
LoginCall(u, usernameOrData, password) ==
  /\ Begin(u)
  /\ LET payload == loginPayload(usernameOrData, password)
         check == loginCheck(activeUserData, data[u], payload)
     IN IF check = "send"
        THEN /\ pc' = [pc EXCEPT ![u] = "login_wait"]
             /\ loc' = [loc EXCEPT ![u] =
                          [Idle EXCEPT !.op = "login", !.snap = data[u],
                                       !.req = payload]]
             /\ last' = [Event("login", u, "pending", None,
                               Request("login", payload), Null)
                          EXCEPT !.input = [usernameOrData |-> usernameOrData,
                                            password |-> password]]
        ELSE /\ UNCHANGED <<pc, loc>>
             /\ last' = [Event("login", u, check, None, NoRequest, Null)
                          EXCEPT !.input = [usernameOrData |-> usernameOrData,
                                            password |-> password]]
  /\ UNCHANGED <<data, activeUserData, activeSocialIdentity>>

\* LoginResolve without the setAsActiveUser of line 342.
LoginResolveNoPromote(u, response) ==
  /\ pc[u] = "login_wait"
  /\ UNCHANGED calls
  /\ data' = [data EXCEPT ![u] = response]
  /\ pc' = [pc EXCEPT ![u] = "idle"]
  /\ loc' = [loc EXCEPT ![u] = Idle]
  /\ last' = Event("login", u, "ok", "activeUser", NoRequest, response)
  /\ UNCHANGED <<activeUserData, activeSocialIdentity>>

\* login, lines 340-343: the request succeeded.
LoginResolve(u, response) ==
  /\ pc[u] = "login_wait"
  /\ UNCHANGED calls
  /\ data' = [data EXCEPT ![u] = response]
  /\ activeUserData' = setAsActiveUser(activeUserData, response)
  /\ pc' = [pc EXCEPT ![u] = "idle"]
  /\ loc' = [loc EXCEPT ![u] = Idle]
  /\ last' = Event("login", u, "ok", "activeUser", NoRequest, response)
  /\ UNCHANGED activeSocialIdentity

\* LoginReject with a failure handler that resets the session.
LoginRejectReset(u, error) ==
  /\ pc[u] = "login_wait"
  /\ UNCHANGED calls
  /\ data' = [data EXCEPT ![u] = EmptyData]
  /\ pc' = [pc EXCEPT ![u] = "idle"]
  /\ loc' = [loc EXCEPT ![u] = Idle]
  /\ last' = Event("login", u, error, None, NoRequest, Null)
  /\ UNCHANGED <<activeUserData, activeSocialIdentity>>

\* login: the request failed or timed out; no callback of login runs.
LoginReject(u, error) ==
  /\ pc[u] = "login_wait"
  /\ UNCHANGED calls
  /\ pc' = [pc EXCEPT ![u] = "idle"]
  /\ loc' = [loc EXCEPT ![u] = Idle]
  /\ last' = Event("login", u, error, None, NoRequest, Null)
  /\ UNCHANGED <<data, activeUserData, activeSocialIdentity>>

\* LogoutCall without the early return of lines 402-406.
LogoutCallAlways(u) ==
  /\ Begin(u)
  /\ pc' = [pc EXCEPT ![u] = "logout_wait"]
  /\ loc' = [loc EXCEPT ![u] = [Idle EXCEPT !.op = "logout", !.snap = data[u]]]
  /\ last' = Event("logout", u, "pending", None, Request("logout", Null), Null)
  /\ UNCHANGED <<data, activeUserData, activeSocialIdentity>>

\* user.logout(): the synchronous part, lines 401-418.
LogoutCall(u) ==
  /\ Begin(u)
  /\ IF ~isActive(activeUserData, data[u])
     THEN /\ UNCHANGED <<pc, loc>>
          /\ last' = Event("logout", u, "null", "null", NoRequest, Null)
     ELSE /\ pc' = [pc EXCEPT ![u] = "logout_wait"]
          /\ loc' = [loc EXCEPT ![u] =
                       [Idle EXCEPT !.op = "logout", !.snap = data[u]]]
          /\ last' = Event("logout", u, "pending", None,
                           Request("logout", Null), Null)
  /\ UNCHANGED <<data, activeUserData, activeSocialIdentity>>

\* logoutCatch without the catch of lines 420-422.
logoutNoCatch(settled) == settled

\* logout, lines 420-422: what the rest of the chain sees once the request
\* has settled with `settled` ("ok" or the error's name).
logoutCatch(settled) == "ok"

\* LogoutSettle without the clearing of lines 423-427.
LogoutSettleNoClear(u, settled) ==
  /\ pc[u] = "logout_wait"
  /\ UNCHANGED calls
  /\ last' = Event("logout", u, "ok", "this", NoRequest,
                   Request(settled, Null))
  /\ pc' = [pc EXCEPT ![u] = "idle"]
  /\ loc' = [loc EXCEPT ![u] = Idle]
  /\ UNCHANGED <<data, activeUserData, activeSocialIdentity>>

\* logout, lines 420-430: the request settled; re-check and clear.
LogoutSettle(u, settled) ==
  /\ pc[u] = "logout_wait"
  /\ UNCHANGED calls
  /\ LET seen == logoutCatch(settled)
     IN /\ activeUserData' =
             IF seen = "ok" /\ isActive(activeUserData, data[u])
             THEN setActiveUser(activeUserData, Null, sharedInstance)
             ELSE activeUserData
        /\ last' = Event("logout", u, seen, IF seen = "ok" THEN "this" ELSE None,
                         NoRequest, Request(settled, Null))
  /\ pc' = [pc EXCEPT ![u] = "idle"]
  /\ loc' = [loc EXCEPT ![u] = Idle]
  /\ UNCHANGED <<data, activeSocialIdentity>>

\* signup, lines 692-695: options.state defaults to true; the call itself
\* only queues the first callback.
SignupCall(u, payload, state) ==
  /\ Begin(u)
  /\ pc' = [pc EXCEPT ![u] = "signup_start"]
  /\ loc' = [loc EXCEPT ![u] =
               [Idle EXCEPT !.op = "signup", !.snap = data[u], !.req = payload,
                            !.state = state]]
  /\ last' = Event("signup", u, "pending", None, NoRequest, Null)
  /\ UNCHANGED <<data, activeUserData, activeSocialIdentity>>

\* signupCheck without the check of lines 698-703.
signupCheckNone(store, state) == "send"

\* signup, lines 697-704: the active-user check of the first callback.
signupCheck(store, state) ==
  IF state = TRUE /\ getActiveUser(store, sharedInstance) # Null
  THEN "ActiveUserError"
  ELSE "send"

\* signup, lines 697-718: check, then send the creation request.
SignupStart(u) ==
  /\ pc[u] = "signup_start"
  /\ UNCHANGED calls
  /\ LET check == signupCheck(activeUserData, loc[u].state)
     IN IF check = "send"
        THEN /\ pc' = [pc EXCEPT ![u] = "signup_wait"]
             /\ loc' = loc
             /\ last' = Event("signup", u, "pending", None,
                              Request("signup", loc[u].req), Null)
        ELSE /\ pc' = [pc EXCEPT ![u] = "idle"]
             /\ loc' = [loc EXCEPT ![u] = Idle]
             /\ last' = Event("signup", u, check, None, NoRequest, Null)
  /\ UNCHANGED <<data, activeUserData, activeSocialIdentity>>

\* signupStore without the setAsActiveUser of line 723.
signupStoreNever(store, response, state) == store

\* signupStore promoting whatever options.state is.
signupStoreAlways(store, response, state) == setAsActiveUser(store, response)

\* signup, lines 719-727: the store after a successful creation.
signupStore(store, response, state) ==
  IF state = TRUE THEN setAsActiveUser(store, response) ELSE store

\* signup, lines 719-727: the request succeeded.
SignupResolve(u, response) ==
  /\ pc[u] = "signup_wait"
  /\ UNCHANGED calls
  /\ data' = [data EXCEPT ![u] = response]
  /\ activeUserData' = signupStore(activeUserData, response, loc[u].state)
  /\ pc' = [pc EXCEPT ![u] = "idle"]
  /\ loc' = [loc EXCEPT ![u] = Idle]
  /\ last' = Event("signup", u, "ok",
                   IF loc[u].state = TRUE THEN "activeUser" ELSE "this",
                   NoRequest, response)
  /\ UNCHANGED activeSocialIdentity

\* signup: the request failed or timed out.
SignupReject(u, error) ==
  /\ pc[u] = "signup_wait"
  /\ UNCHANGED calls
  /\ pc' = [pc EXCEPT ![u] = "idle"]
  /\ loc' = [loc EXCEPT ![u] = Idle]
  /\ last' = Event("signup", u, error, None, NoRequest, Null)
  /\ UNCHANGED <<data, activeUserData, activeSocialIdentity>>

\* The records the backend may answer _me with; the endpoint may omit the
\* authtoken.
MeRecords(d) ==
  {[_id |-> i, authtoken |-> t, username |-> d.username, password |-> Undef,
    si |-> d.si] : i \in Ids, t \in Tokens \cup {None}}

\* user.me(): lines 751-762, the request is sent at once.
MeCall(u) ==
  /\ Begin(u)
  /\ pc' = [pc EXCEPT ![u] = "me_wait"]
  /\ loc' = [loc EXCEPT ![u] = [Idle EXCEPT !.op = "me", !.snap = data[u]]]
  /\ last' = Event("me", u, "pending", None, Request("me", Null), Null)
  /\ UNCHANGED <<data, activeUserData, activeSocialIdentity>>

\* meData without the carry-over of lines 767-773.
meDataNoCarry(store, response) == response

\* me, lines 765-773: the data kept from the response.
meData(store, response) ==
  LET activeUser == getActiveUser(store, sharedInstance)
  IN IF response.authtoken = None /\ activeUser # Null
     THEN [response EXCEPT !.authtoken = activeUser.authtoken]
     ELSE response

\* me, lines 764-776: the request succeeded.
MeResolve(u, response) ==
  /\ pc[u] = "me_wait"
  /\ UNCHANGED calls
  /\ LET d == meData(activeUserData, response)
     IN /\ data' = [data EXCEPT ![u] = d]
        /\ activeUserData' = setAsActiveUser(activeUserData, d)
  /\ pc' = [pc EXCEPT ![u] = "idle"]
  /\ loc' = [loc EXCEPT ![u] = Idle]
  /\ last' = Event("me", u, "ok", "activeUser", NoRequest, response)
  /\ UNCHANGED activeSocialIdentity

\* me: the request failed or timed out.
MeReject(u, error) ==
  /\ pc[u] = "me_wait"
  /\ UNCHANGED calls
  /\ pc' = [pc EXCEPT ![u] = "idle"]
  /\ loc' = [loc EXCEPT ![u] = Idle]
  /\ last' = Event("me", u, error, None, NoRequest, Null)
  /\ UNCHANGED <<data, activeUserData, activeSocialIdentity>>

\* --------------------------------------------------------- UserStore.save

\* save, lines 23-33: the argument checks a user record can fail.
saveCheck(user) == IF user._id = None THEN "KinveyError" ELSE "send"

\* save, lines 35-46: with options._identity set, every other identity whose
\* entry is truthy is deleted from the record (in place).
saveStrip(si, identity) ==
  IF identity # None /\ si # NoMap
  THEN [p \in Keys |->
          IF TokenTruthy(si[p]) /\ p # identity THEN Absent ELSE si[p]]
  ELSE si

\* user.update(data, options), lines 738-749, once the save has succeeded.
updateStore(store, saved) ==
  IF isActive(store, saved) THEN setAsActiveUser(store, saved) ELSE store

\* ------------------------------------------------------ connect, disconnect

\* data[_socialIdentity] || {}
siOrEmpty(si) == IF si = NoMap THEN EmptyMap ELSE si

\* connect, lines 597-601: merge the token into this.data.
connectMerge(d, identity, token) ==
  [d EXCEPT !.si = [siOrEmpty(d.si) EXCEPT ![identity] = token]]

\* user.connect(identity, token, options): the synchronous part.
ConnectCall(u, identity, token, state, meta) ==
  /\ Begin(u)
  /\ data' = [data EXCEPT ![u] = connectMerge(data[u], identity, token)]
  /\ pc' = [pc EXCEPT ![u] = "connect_start"]
  /\ loc' = [loc EXCEPT ![u] =
               [Idle EXCEPT !.op = "connect", !.snap = data[u],
                            !.identity = identity, !.token = token,
                            !.state = state, !.meta = meta]]
  /\ last' = ConnectEvent(u, Idle, "pending", None, NoRequest, Null)
  /\ UNCHANGED <<activeUserData, activeSocialIdentity>>

\* connect, lines 603-611: update when active, login otherwise.
ConnectStart(u) ==
  /\ pc[u] = "connect_start"
  /\ UNCHANGED calls
  /\ IF isActive(activeUserData, data[u])
     THEN LET check == saveCheck(data[u])
              stripped == [data[u] EXCEPT !.si = saveStrip(@, loc[u].identity)]
          IN IF check = "send"
             THEN /\ data' = [data EXCEPT ![u] = stripped]
                  /\ pc' = [pc EXCEPT ![u] = "connect_update_wait"]
                  /\ loc' = [loc EXCEPT ![u].req = stripped]
                  /\ last' = ConnectEvent(u, loc[u], "pending", None,
                                   Request("update", stripped), Null)
             ELSE /\ pc' = [pc EXCEPT ![u] = "idle"]
                  /\ loc' = [loc EXCEPT ![u] = Idle]
                  /\ last' = ConnectEvent(u, loc[u], check, None, NoRequest, Null)
                  /\ UNCHANGED data
     ELSE LET payload == loginPayload(data[u], Undef)
              check == loginCheck(activeUserData, data[u], payload)
          IN IF check = "send"
             THEN /\ pc' = [pc EXCEPT ![u] = "connect_login_wait"]
                  /\ loc' = [loc EXCEPT ![u].req = payload]
                  /\ last' = ConnectEvent(u, loc[u], "pending", None,
                                   Request("login", payload), Null)
                  /\ UNCHANGED data
             ELSE /\ pc' = [pc EXCEPT ![u] = "idle"]
                  /\ loc' = [loc EXCEPT ![u] = Idle]
                  /\ last' = ConnectEvent(u, loc[u], check, None, NoRequest, Null)
                  /\ UNCHANGED data
  /\ UNCHANGED <<activeUserData, activeSocialIdentity>>

\* connectPointer dropping the redirectUri and client of the options.
connectPointerNoMeta(pointer, d, identity, meta) ==
  IF d.si = NoMap
  THEN pointer
  ELSE [pointer EXCEPT ![sharedInstance] =
          [identity |-> identity, token |-> d.si[identity], meta |-> None]]

\* connect, lines 620-628: record the active social identity; reading
\* this._socialIdentity[identity] throws when the attribute is undefined.
connectPointer(pointer, d, identity, meta) ==
  IF d.si = NoMap
  THEN pointer
  ELSE [pointer EXCEPT ![sharedInstance] =
          [identity |-> identity, token |-> d.si[identity], meta |-> meta]]

connectOutcome(d) == IF d.si = NoMap THEN "TypeError" ELSE "ok"

\* connect: the login of lines 611 and 340-343 succeeded, then lines 620-628.
ConnectLoginResolve(u, response) ==
  /\ pc[u] = "connect_login_wait"
  /\ UNCHANGED calls
  /\ data' = [data EXCEPT ![u] = response]
  /\ activeUserData' = setAsActiveUser(activeUserData, response)
  /\ activeSocialIdentity' =
       connectPointer(activeSocialIdentity, response, loc[u].identity, loc[u].meta)
  /\ pc' = [pc EXCEPT ![u] = "idle"]
  /\ loc' = [loc EXCEPT ![u] = Idle]
  /\ last' = ConnectEvent(u, loc[u], connectOutcome(response),
                   IF connectOutcome(response) = "ok" THEN "this" ELSE None,
                   NoRequest, response)

\* connectRecovers catching every error.
connectRecoversAny(error) == TRUE

\* connect, lines 612-619: which errors start the signup recovery.
connectRecovers(error) == error = "NotFoundError"

\* connect: the login or the update failed; lines 612-619.
ConnectReject(u, error) ==
  /\ pc[u] \in {"connect_login_wait", "connect_update_wait"}
  /\ UNCHANGED calls
  /\ connectRecovers(error) => loc[u].notFounds < MaxHops
  /\ IF connectRecovers(error)
     THEN /\ pc' = [pc EXCEPT ![u] = "connect_signup_start"]
          /\ loc' = [loc EXCEPT ![u].req = data[u],
                                ![u].notFounds = @ + 1]
          /\ last' = ConnectEvent(u, [loc[u] EXCEPT !.notFounds = @ + 1],
                                  "pending", None, NoRequest,
                                  Request(error, Null))
     ELSE /\ pc' = [pc EXCEPT ![u] = "idle"]
          /\ loc' = [loc EXCEPT ![u] = Idle]
          /\ last' = ConnectEvent(u, loc[u], error, None, NoRequest,
                                  Request(error, Null))
  /\ UNCHANGED <<data, activeUserData, activeSocialIdentity>>

\* connect: the first callbacks of the recovery signup, lines 697-718.
ConnectSignupStart(u) ==
  /\ pc[u] = "connect_signup_start"
  /\ UNCHANGED calls
  /\ LET check == signupCheck(activeUserData, loc[u].state)
     IN IF check = "send"
        THEN /\ pc' = [pc EXCEPT ![u] = "connect_signup_wait"]
             /\ loc' = [loc EXCEPT ![u].signups = @ + 1]
             /\ last' = ConnectEvent(u, [loc[u] EXCEPT !.signups = @ + 1],
                                     "pending", None,
                                     Request("signup", loc[u].req), Null)
        ELSE /\ pc' = [pc EXCEPT ![u] = "idle"]
             /\ loc' = [loc EXCEPT ![u] = Idle]
             /\ last' = ConnectEvent(u, loc[u], check, None, NoRequest, Null)
  /\ UNCHANGED <<data, activeUserData, activeSocialIdentity>>

\* ConnectSignupResolve without the call of connect of lines 614-616.
ConnectSignupResolveNoRetry(u, response) ==
  /\ pc[u] = "connect_signup_wait"
  /\ UNCHANGED calls
  /\ data' = [data EXCEPT ![u] = response]
  /\ activeUserData' = signupStore(activeUserData, response, loc[u].state)
  /\ activeSocialIdentity' =
       connectPointer(activeSocialIdentity, response, loc[u].identity,
                      loc[u].meta)
  /\ pc' = [pc EXCEPT ![u] = "idle"]
  /\ loc' = [loc EXCEPT ![u] = Idle]
  /\ last' = ConnectEvent(u, loc[u], connectOutcome(response),
                          IF connectOutcome(response) = "ok" THEN "this"
                          ELSE None, NoRequest, response)

\* connect: the recovery signup succeeded (lines 719-727) and connect is
\* called again (lines 614-616, 597-601).
ConnectSignupResolve(u, response) ==
  /\ pc[u] = "connect_signup_wait"
  /\ UNCHANGED calls
  /\ data' = [data EXCEPT ![u] =
                connectMerge(response, loc[u].identity, loc[u].token)]
  /\ activeUserData' = signupStore(activeUserData, response, loc[u].state)
  /\ pc' = [pc EXCEPT ![u] = "connect_start"]
  /\ loc' = [loc EXCEPT ![u].req = Null, ![u].retries = @ + 1]
  /\ last' = ConnectEvent(u, [loc[u] EXCEPT !.retries = @ + 1], "pending",
                          None, NoRequest, response)
  /\ UNCHANGED activeSocialIdentity

\* connect: the recovery signup failed.
ConnectSignupReject(u, error) ==
  /\ pc[u] = "connect_signup_wait"
  /\ UNCHANGED calls
  /\ pc' = [pc EXCEPT ![u] = "idle"]
  /\ loc' = [loc EXCEPT ![u] = Idle]
  /\ last' = ConnectEvent(u, loc[u], error, None, NoRequest,
                          Request(error, Null))
  /\ UNCHANGED <<data, activeUserData, activeSocialIdentity>>

\* connect: the update of line 608 succeeded (lines 740-748), then 620-628.
\* The store answers a save with the record it was given.
ConnectUpdateResolve(u) ==
  /\ pc[u] = "connect_update_wait"
  /\ UNCHANGED calls
  /\ LET saved == loc[u].req
     IN /\ data' = [data EXCEPT ![u] = saved]
        /\ activeUserData' = updateStore(activeUserData, saved)
        /\ activeSocialIdentity' =
             connectPointer(activeSocialIdentity, saved, loc[u].identity,
                            loc[u].meta)
        /\ last' = ConnectEvent(u, loc[u], connectOutcome(saved),
                         IF connectOutcome(saved) = "ok" THEN "this" ELSE None,
                         NoRequest, saved)
  /\ pc' = [pc EXCEPT ![u] = "idle"]
  /\ loc' = [loc EXCEPT ![u] = Idle]

\* disconnect, lines 634-638: delete the entry from this.data.
disconnectRemove(d, identity) ==
  [d EXCEPT !.si = [siOrEmpty(d.si) EXCEPT ![identity] = Absent]]

\* disconnect, lines 646-654: reading .identity of a null pointer throws;
\* the pointer is cleared when it names the identity.
disconnectOutcome(pointer) ==
  IF pointer[sharedInstance] = Null THEN "TypeError" ELSE "ok"

\* disconnectPointer clearing the pointer whichever identity it names.
disconnectPointerAlways(pointer, identity) ==
  [pointer EXCEPT ![sharedInstance] = Null]

disconnectPointer(pointer, identity) ==
  IF pointer[sharedInstance] # Null
     /\ pointer[sharedInstance].identity = identity
  THEN [pointer EXCEPT ![sharedInstance] = Null]
  ELSE pointer

\* user.disconnect(identity, options): the synchronous part.
DisconnectCall(u, identity) ==
  /\ Begin(u)
  /\ data' = [data EXCEPT ![u] = disconnectRemove(data[u], identity)]
  /\ pc' = [pc EXCEPT ![u] = "disconnect_start"]
  /\ loc' = [loc EXCEPT ![u] =
               [Idle EXCEPT !.op = "disconnect", !.snap = data[u],
                            !.identity = identity]]
  /\ last' = Event("disconnect", u, "pending", None, NoRequest, Null)
  /\ UNCHANGED <<activeUserData, activeSocialIdentity>>

\* disconnect, lines 640-654: a user without _id is done locally, any other
\* is saved first.
DisconnectStart(u) ==
  /\ pc[u] = "disconnect_start"
  /\ UNCHANGED calls
  /\ IF data[u]._id = None
     THEN /\ activeSocialIdentity' =
               disconnectPointer(activeSocialIdentity, loc[u].identity)
          /\ pc' = [pc EXCEPT ![u] = "idle"]
          /\ loc' = [loc EXCEPT ![u] = Idle]
          /\ last' = Event("disconnect", u,
                           disconnectOutcome(activeSocialIdentity),
                           IF disconnectOutcome(activeSocialIdentity) = "ok"
                           THEN "this" ELSE None,
                           NoRequest, Null)
     ELSE /\ pc' = [pc EXCEPT ![u] = "disconnect_update_wait"]
          /\ loc' = [loc EXCEPT ![u].req = data[u]]
          /\ last' = Event("disconnect", u, "pending", None,
                           Request("update", data[u]), Null)
          /\ UNCHANGED activeSocialIdentity
  /\ UNCHANGED <<data, activeUserData>>

\* disconnect: the update succeeded (lines 740-748), then lines 646-654.
DisconnectUpdateResolve(u) ==
  /\ pc[u] = "disconnect_update_wait"
  /\ UNCHANGED calls
  /\ LET saved == loc[u].req
     IN /\ data' = [data EXCEPT ![u] = saved]
        /\ activeUserData' = updateStore(activeUserData, saved)
  /\ activeSocialIdentity' =
       disconnectPointer(activeSocialIdentity, loc[u].identity)
  /\ pc' = [pc EXCEPT ![u] = "idle"]
  /\ loc' = [loc EXCEPT ![u] = Idle]
  /\ last' = Event("disconnect", u, disconnectOutcome(activeSocialIdentity),
                   IF disconnectOutcome(activeSocialIdentity) = "ok"
                   THEN "this" ELSE None,
                   NoRequest, loc[u].req)

\* disconnect: the update failed or timed out.
DisconnectUpdateReject(u, error) ==
  /\ pc[u] = "disconnect_update_wait"
  /\ UNCHANGED calls
  /\ pc' = [pc EXCEPT ![u] = "idle"]
  /\ loc' = [loc EXCEPT ![u] = Idle]
  /\ last' = Event("disconnect", u, error, None, NoRequest, Null)
  /\ UNCHANGED <<data, activeUserData, activeSocialIdentity>>

\* ------------------------------------- loginWithMIC, refreshAuthToken

\* Tokens the MobileIdentityConnect flows deliver.
MicTokens == {"k1", "k2"}

\* A call of connect made from a callback of another operation of u: the
\* synchronous part of connect (lines 597-601) with that operation's options.
ConnectFrom(u, identity, token, meta) ==
  /\ data' = [data EXCEPT ![u] = connectMerge(data[u], identity, token)]
  /\ pc' = [pc EXCEPT ![u] = "connect_start"]
  /\ loc' = [loc EXCEPT ![u] =
               [Idle EXCEPT !.op = "connect", !.snap = data[u],
                            !.identity = identity, !.token = token,
                            !.meta = meta]]

\* MicCall calling connect before the flow has delivered a token.
MicCallEager(u, redirectUri) ==
  /\ Begin(u)
  /\ ConnectFrom(u, micIdentity, None, redirectUri)
  /\ last' = Event("loginWithMIC", u, "pending", None, Request("mic", Null),
                   Null)
  /\ UNCHANGED <<activeUserData, activeSocialIdentity>>

\* user.loginWithMIC(redirectUri, authorizationGrant, options), lines 378-380:
\* the redirect flow of mic.login is started; nothing else happens.
MicCall(u, redirectUri) ==
  /\ Begin(u)
  /\ pc' = [pc EXCEPT ![u] = "mic_wait"]
  /\ loc' = [loc EXCEPT ![u] =
               [Idle EXCEPT !.op = "loginWithMIC", !.snap = data[u],
                            !.meta = redirectUri]]
  /\ last' = Event("loginWithMIC", u, "pending", None, Request("mic", Null),
                   Null)
  /\ UNCHANGED <<data, activeUserData, activeSocialIdentity>>

\* loginWithMIC, lines 380-384: the flow delivered a token; connect is
\* called with the redirectUri and the client of the flow in the options.
MicResolve(u, token) ==
  /\ pc[u] = "mic_wait"
  /\ UNCHANGED calls
  /\ ConnectFrom(u, micIdentity, token, loc[u].meta)
  /\ last' = Event("loginWithMIC", u, "pending", None, NoRequest,
                   [kind |-> "token", token |-> token])
  /\ UNCHANGED <<activeUserData, activeSocialIdentity>>

\* loginWithMIC: the flow failed; no callback of loginWithMIC runs.
MicReject(u, error) ==
  /\ pc[u] = "mic_wait"
  /\ UNCHANGED calls
  /\ pc' = [pc EXCEPT ![u] = "idle"]
  /\ loc' = [loc EXCEPT ![u] = Idle]
  /\ last' = Event("loginWithMIC", u, error, None, NoRequest,
                   Request(error, Null))
  /\ UNCHANGED <<data, activeUserData, activeSocialIdentity>>

\* refreshRoute sending every identity to the refresh routine.
refreshRouteAny(identity) == "refresh"

\* refreshAuthToken, lines 827-836: the switch on the active identity.
refreshRoute(identity) ==
  IF identity = micIdentity THEN "refresh" ELSE "KinveyError"

\* user.refreshAuthToken(options), lines 821-836.  Reading activeIdentity of
\* an undefined _socialIdentity throws.
RefreshCall(u) ==
  /\ Begin(u)
  /\ LET si == data[u].si
         identity == IF si = NoMap \/ si["activeIdentity"] = Absent
                     THEN None ELSE si["activeIdentity"]
         token == IF identity = None \/ si[identity] = Absent
                  THEN None ELSE si[identity]
     IN IF si = NoMap
        THEN /\ UNCHANGED <<pc, loc>>
             /\ last' = Event("refreshAuthToken", u, "TypeError", None,
                              NoRequest, Null)
        ELSE IF refreshRoute(identity) = "refresh"
        THEN /\ pc' = [pc EXCEPT ![u] = "refresh_wait"]
             /\ loc' = [loc EXCEPT ![u] =
                          [Idle EXCEPT !.op = "refreshAuthToken",
                                       !.snap = data[u],
                                       !.identity = identity,
                                       !.token = token]]
             /\ last' = Event("refreshAuthToken", u, "pending", None,
                              Request("refresh", Null), Null)
        ELSE /\ UNCHANGED <<pc, loc>>
             /\ last' = Event("refreshAuthToken", u, refreshRoute(identity),
                              None, NoRequest, Null)
  /\ UNCHANGED <<data, activeUserData, activeSocialIdentity>>

\* refreshAuthToken, lines 838-840: the refresh delivered a token.
RefreshResolve(u, token) ==
  /\ pc[u] = "refresh_wait"
  /\ UNCHANGED calls
  /\ ConnectFrom(u, loc[u].identity, token, None)
  /\ last' = Event("refreshAuthToken", u, "pending", None, NoRequest,
                   [kind |-> "token", token |-> token])
  /\ UNCHANGED <<activeUserData, activeSocialIdentity>>

\* refreshAuthToken: the refresh failed; the callback of line 838 is skipped.
RefreshReject(u, error) ==
  /\ pc[u] = "refresh_wait"
  /\ UNCHANGED calls
  /\ pc' = [pc EXCEPT ![u] = "idle"]
  /\ loc' = [loc EXCEPT ![u] = Idle]
  /\ last' = Event("refreshAuthToken", u, error, None, NoRequest,
                   Request(error, Null))
  /\ UNCHANGED <<data, activeUserData, activeSocialIdentity>>

\* ------------------------------------------------- connectWithIdentity

supportedIdentities == {"facebook", "google", "linkedIn"}

\* Bound on the number of records the Identities query is answered with.
MaxRecords == 2

\* isIdentitySupported without the test of the bridge library.
isIdentitySupportedAnyPlatform(hello, identity) ==
  identity \in supportedIdentities

\* User.isIdentitySupported(identity), lines 444-446.
isIdentitySupported(hello, identity) ==
  hello /\ identity \in supportedIdentities

\* connectWithIdentity, lines 530-536: the checks that precede the query.
cwiCheck(hello, identity) ==
  IF identity = None THEN "KinveyError"
  ELSE IF ~isIdentitySupported(hello, identity) THEN "KinveyError"
  ELSE "send"

\* cwiLookup accepting any non-empty answer.
cwiLookupAny(n) == IF n >= 1 THEN "bridge" ELSE "KinveyError"

\* connectWithIdentity, lines 555-566: the bridge is used when the query
\* returned exactly one record.
cwiLookup(n) == IF n = 1 THEN "bridge" ELSE "KinveyError"

\* user.connectWithIdentity(identity, options): the synchronous part, lines
\* 526-529; everything else is deferred.
CwiCall(u, identity, hello) ==
  /\ Begin(u)
  /\ pc' = [pc EXCEPT ![u] = "cwi_start"]
  /\ loc' = [loc EXCEPT ![u] =
               [Idle EXCEPT !.op = "connectWithIdentity", !.snap = data[u],
                            !.identity = identity, !.hello = hello]]
  /\ last' = Event("connectWithIdentity", u, "pending", None, NoRequest, Null)
  /\ UNCHANGED <<data, activeUserData, activeSocialIdentity>>

\* connectWithIdentity, lines 530-554: the checks, then the Identities query.
CwiStart(u) ==
  /\ pc[u] = "cwi_start"
  /\ UNCHANGED calls
  /\ LET check == cwiCheck(loc[u].hello, loc[u].identity)
     IN IF check = "send"
        THEN /\ pc' = [pc EXCEPT ![u] = "cwi_query_wait"]
             /\ UNCHANGED loc
             /\ last' = [Event("connectWithIdentity", u, "pending", None,
                               Request("identities", Null), Null)
                          EXCEPT !.input = [identity |-> loc[u].identity,
                                            hello |-> loc[u].hello]]
        ELSE /\ pc' = [pc EXCEPT ![u] = "idle"]
             /\ loc' = [loc EXCEPT ![u] = Idle]
             /\ last' = [Event("connectWithIdentity", u, check, None,
                               NoRequest, Null)
                          EXCEPT !.input = [identity |-> loc[u].identity,
                                            hello |-> loc[u].hello]]
  /\ UNCHANGED <<data, activeUserData, activeSocialIdentity>>

\* connectWithIdentity, lines 555-566: the query returned n records.
CwiQueryResolve(u, n) ==
  /\ pc[u] = "cwi_query_wait"
  /\ UNCHANGED calls
  /\ IF cwiLookup(n) = "bridge"
     THEN /\ pc' = [pc EXCEPT ![u] = "cwi_bridge_wait"]
          /\ UNCHANGED loc
          /\ last' = Event("connectWithIdentity", u, "pending", None,
                           Request("bridge", Null),
                           [kind |-> "records", n |-> n])
     ELSE /\ pc' = [pc EXCEPT ![u] = "idle"]
          /\ loc' = [loc EXCEPT ![u] = Idle]
          /\ last' = Event("connectWithIdentity", u, cwiLookup(n), None,
                           NoRequest, [kind |-> "records", n |-> n])
  /\ UNCHANGED <<data, activeUserData, activeSocialIdentity>>

\* connectWithIdentity: the query failed.
CwiQueryReject(u, error) ==
  /\ pc[u] = "cwi_query_wait"
  /\ UNCHANGED calls
  /\ pc' = [pc EXCEPT ![u] = "idle"]
  /\ loc' = [loc EXCEPT ![u] = Idle]
  /\ last' = Event("connectWithIdentity", u, error, None, NoRequest,
                   Request(error, Null))
  /\ UNCHANGED <<data, activeUserData, activeSocialIdentity>>

\* connectWithIdentity, lines 567-570: the bridge login succeeded; connect
\* is called with the bridge's auth response.
CwiBridgeResolve(u, authResponse) ==
  /\ pc[u] = "cwi_bridge_wait"
  /\ UNCHANGED calls
  /\ ConnectFrom(u, loc[u].identity, authResponse, None)
  /\ last' = Event("connectWithIdentity", u, "pending", None, NoRequest,
                   [kind |-> "token", token |-> authResponse])
  /\ UNCHANGED <<activeUserData, activeSocialIdentity>>

\* connectWithIdentity: the bridge login failed or was cancelled.
CwiBridgeReject(u, error) ==
  /\ pc[u] = "cwi_bridge_wait"
  /\ UNCHANGED calls
  /\ pc' = [pc EXCEPT ![u] = "idle"]
  /\ loc' = [loc EXCEPT ![u] = Idle]
  /\ last' = Event("connectWithIdentity", u, error, None, NoRequest,
                   Request(error, "bridge"))
  /\ UNCHANGED <<data, activeUserData, activeSocialIdentity>>

\* ------------------------------------------------- construction, setActive

\* new User(): a fresh object takes the place of an idle one.
NewUser(u) ==
  /\ Begin(u)
  /\ data' = [data EXCEPT ![u] = EmptyData]
  /\ last' = Event("new", u, "ok", "this", NoRequest, Null)
  /\ UNCHANGED <<pc, loc, activeUserData, activeSocialIdentity>>

\* u = User.getActiveUser(): an object built around the stored record.
GetActiveUser(u) ==
  /\ Begin(u)
  /\ getActiveUser(activeUserData, sharedInstance) # Null
  /\ data' = [data EXCEPT ![u] = getActiveUser(activeUserData, sharedInstance)]
  /\ last' = Event("getActiveUser", u, "ok", "activeUser", NoRequest, Null)
  /\ UNCHANGED <<pc, loc, activeUserData, activeSocialIdentity>>

\* User.setActiveUser(user, client) with the User object u.
SetActiveUser(u, client) ==
  /\ calls < MaxCalls /\ calls' = calls + 1
  /\ activeUserData' = setActiveUser(activeUserData, data[u], client)
  /\ last' = [Event("setActiveUser", u, "ok", "activeUser", NoRequest,
                     getActiveUser(activeUserData', client))
               EXCEPT !.client = client]
  /\ UNCHANGED <<data, pc, loc, activeSocialIdentity>>

\* User.setActiveUser(null, client)
ClearActiveUser(u, client) ==
  /\ calls < MaxCalls /\ calls' = calls + 1
  /\ activeUserData' = setActiveUser(activeUserData, Null, client)
  /\ last' = [Event("setActiveUser", u, "ok", "null", NoRequest,
                     getActiveUser(activeUserData', client))
               EXCEPT !.client = client]
  /\ UNCHANGED <<data, pc, loc, activeSocialIdentity>>

\* user.authtoken = t: the setter of lines 141-145 writes this.data only.
SetAuthtoken(u, t) ==
  /\ Begin(u)
  /\ data' = [data EXCEPT ![u].authtoken = t]
  /\ last' = Event("authtoken", u, "ok", None, NoRequest, Null)
  /\ UNCHANGED <<pc, loc, activeUserData, activeSocialIdentity>>

\* ------------------------------------------------- legacy global API

\* The calls of Kinvey.init the application makes; they may overlap.
Inits == {"a", "b"}

\* A call of Kinvey.init that has not been made yet.
NoInit == [pc |-> "idle", user |-> Null, previous |-> Null]

\* Lines 88 and 91 with an 'activeUser' storage entry `stored`.
KinveyLoaded(stored) ==
  [activeUser |-> Null, activeUserReady |-> FALSE, storage |-> stored,
   init |-> [i \in Inits |-> NoInit]]

\* Users of the legacy API: _id and _kmd.authtoken.
KinveyUsers == {[_id |-> i, authtoken |-> TokenOf[i]] : i \in Ids}

\* Kinvey.setActiveUser, lines 164-167: the argument check.
kinveyUserValid(user) ==
  user = Null \/ (user._id # None /\ user.authtoken # None)

\* kinveySet leaving the ready flag as it is.
kinveySetNotReady(k, user) ==
  [k EXCEPT !.activeUser = user, !.storage = user]

\* Kinvey.setActiveUser, lines 169-184, for a valid user: the flag is raised,
\* the user replaced and the storage entry saved or destroyed.  The value
\* returned (line 187) is k.activeUser.
kinveySet(k, user) ==
  [k EXCEPT !.activeUserReady = TRUE, !.activeUser = user, !.storage = user]

\* Kinvey.init(options) with valid options, lines 203-229: the flag is
\* lowered and Kinvey.Sync.init is started.
KinveyInit(i) ==
  /\ kinvey.init[i].pc = "idle"
  /\ calls < MaxCalls /\ calls' = calls + 1
  /\ kinvey' = [kinvey EXCEPT !.activeUserReady = FALSE,
                              !.init[i].pc = "sync"]
  /\ last' = Event("Kinvey.init", i, "pending", None, Request("sync", Null),
                   Null)
  /\ UNCHANGED userVars

\* Kinvey.Sync.init has fulfilled; restoreActiveUser (lines 98-101) asks the
\* storage for the 'activeUser' entry.
KinveySyncResolve(i) ==
  /\ kinvey.init[i].pc = "sync"
  /\ UNCHANGED calls
  /\ kinvey' = [kinvey EXCEPT !.init[i].pc = "get"]
  /\ last' = Event("Kinvey.init", i, "pending", None, Request("get", Null),
                   Null)
  /\ UNCHANGED userVars

\* restoreActiveUser, lines 102-118: the storage has answered.
restoreActiveUser(i) ==
  /\ kinvey.init[i].pc = "get"
  /\ UNCHANGED calls
  /\ LET user == kinvey.storage
     IN IF user = Null
        THEN /\ kinvey' = [kinveySet(kinvey, Null)
                             EXCEPT !.init[i].pc = "fulfilled"]
             /\ last' = Event("Kinvey.init", i, "ok", "activeUser", NoRequest,
                              Null)
        ELSE /\ kinvey' = [kinveySet(kinvey, user)
                             EXCEPT !.init[i] =
                               [pc |-> "me", user |-> user,
                                previous |-> kinvey.activeUser]]
             /\ last' = Event("Kinvey.init", i, "pending", None,
                              Request("me", Null), user)
  /\ UNCHANGED userVars

\* Kinvey.User.me has fulfilled: it has made the fetched user the active
\* user (line 116).
KinveyMeResolve(i) ==
  /\ kinvey.init[i].pc = "me"
  /\ UNCHANGED calls
  /\ kinvey' = [kinveySet(kinvey, kinvey.init[i].user)
                  EXCEPT !.init[i].pc = "fulfilled"]
  /\ last' = Event("Kinvey.init", i, "ok", "activeUser", NoRequest,
                   kinvey.init[i].user)
  /\ UNCHANGED userVars

\* The errors Kinvey.User.me fails with.
KinveyErrors == {"InvalidCredentials", "NetworkError"}

\* restoreActiveUser, lines 118-129: Kinvey.User.me has failed.
KinveyMeReject(i, error) ==
  /\ kinvey.init[i].pc = "me"
  /\ UNCHANGED calls
  /\ kinvey' = [(IF error = "InvalidCredentials"
                 THEN kinveySet(kinvey, kinvey.init[i].previous)
                 ELSE kinvey)
                  EXCEPT !.init[i].pc = "rejected"]
  /\ last' = Event("Kinvey.init", i, error, None, NoRequest,
                   Request(error, Null))
  /\ UNCHANGED userVars

\* Kinvey.setActiveUser(user) called by the application, lines 158-188.
KinveySetActiveUser(user) ==
  /\ calls < MaxCalls /\ calls' = calls + 1
  /\ IF kinveyUserValid(user)
     THEN /\ kinvey' = kinveySet(kinvey, user)
          /\ last' = Event("Kinvey.setActiveUser", "app", "ok", "previous",
                           NoRequest, kinvey.activeUser)
     ELSE /\ UNCHANGED kinvey
          /\ last' = Event("Kinvey.setActiveUser", "app", "KinveyError", None,
                           NoRequest, Null)
  /\ UNCHANGED userVars

\* Kinvey.getActiveUser() called by the application, lines 140-148.
KinveyGetActiveUser ==
  /\ calls < MaxCalls /\ calls' = calls + 1
  /\ last' = IF kinvey.activeUserReady
             THEN Event("Kinvey.getActiveUser", "app", "ok", "activeUser",
                        NoRequest, kinvey.activeUser)
             ELSE Event("Kinvey.getActiveUser", "app", "KinveyError", None,
                        NoRequest, Null)
  /\ UNCHANGED kinvey
  /\ UNCHANGED userVars

\* ----------------------------------------------------------- specification

Init ==
  /\ data = [u \in Users |-> EmptyData]
  /\ pc = [u \in Users |-> "idle"]
  /\ loc = [u \in Users |-> Idle]
  /\ activeUserData = [c \in Clients |-> Null]
  /\ activeSocialIdentity = [c \in Clients |-> Null]
  /\ calls = 0
  /\ kinvey = KinveyLoaded(Null)
  /\ last = Event("init", "u1", "ok", None, NoRequest, Null)

\* What the application feeds the operations in the interleaved runs.
LoginInputs ==
  {<<Str(<<"b">>), Str(<<"b">>)>>,
   <<Undef, Undef>>,
   <<[EmptyData EXCEPT !.si = [EmptyMap EXCEPT !["facebook"] = "k1"]], Undef>>}

\* The objects the application links identities on; the other object plays
\* the second session of the context.
Linkers == {"u1"}

\* signup() without data and signup({username: 'b'}).
SignupInputs == {EmptyData, [EmptyData EXCEPT !.username = Str(<<"b">>)]}

Next ==
  /\ UNCHANGED kinvey
  /\ \E u \in Users :
    \/ \E in \in LoginInputs : LoginCall(u, in[1], in[2])
    \/ \E r \in UserRecords(loc[u].req) : LoginResolve(u, r)
    \/ \E e \in Errors : LoginReject(u, e)
    \/ LogoutCall(u)
    \/ \E s \in {"ok"} \cup Errors : LogoutSettle(u, s)
    \/ \E p \in SignupInputs, st \in BOOLEAN : SignupCall(u, p, st)
    \/ SignupStart(u)
    \/ \E r \in UserRecords(loc[u].req) : SignupResolve(u, r)
    \/ \E e \in Errors : SignupReject(u, e)
    \/ MeCall(u)
    \/ \E r \in MeRecords(data[u]) : MeResolve(u, r)
    \/ \E e \in Errors : MeReject(u, e)
    \/ \E p \in Providers, t \in IdentityTokens, st \in BOOLEAN :
         u \in Linkers /\ ConnectCall(u, p, t, st, None)
    \/ ConnectStart(u)
    \/ \E r \in UserRecords(loc[u].req) : ConnectLoginResolve(u, r)
    \/ \E e \in Errors : ConnectReject(u, e)
    \/ ConnectSignupStart(u)
    \/ \E r \in UserRecords(loc[u].req) : ConnectSignupResolve(u, r)
    \/ \E e \in Errors : ConnectSignupReject(u, e)
    \/ ConnectUpdateResolve(u)
    \/ \E p \in Providers : u \in Linkers /\ DisconnectCall(u, p)
    \/ DisconnectStart(u)
    \/ DisconnectUpdateResolve(u)
    \/ \E e \in Errors : DisconnectUpdateReject(u, e)
    \/ NewUser(u)
    \/ GetActiveUser(u)
    \/ SetActiveUser(u, sharedInstance)
    \/ ClearActiveUser(u, sharedInstance)
    \/ \E t \in Tokens : SetAuthtoken(u, t)

Spec == Init /\ [][Next]_vars

\* Every form of credentials login can be called with: two arguments, or one
\* object that may carry a _socialIdentity map.
AllLoginInputs ==
  {<<n, w>> : n \in MaybeStrings, w \in MaybeStrings}
  \cup {<<[EmptyData EXCEPT !.username = n, !.password = w, !.si = m], Undef>> :
          n \in MaybeStrings, w \in MaybeStrings,
          m \in {NoMap, [EmptyMap EXCEPT !["facebook"] = "k1"]}}

\* One session logging in and out; the last operation the application starts
\* is a login with any form of credentials, in whatever state the operations
\* before it have left the context.
NextLogin ==
  /\ UNCHANGED kinvey
  /\ \E u \in Linkers :
    \/ \E in \in LoginInputs : LoginCall(u, in[1], in[2])
    \/ \E in \in AllLoginInputs :
         calls = MaxCalls - 1 /\ LoginCall(u, in[1], in[2])
    \/ \E r \in UserRecords(loc[u].req) : LoginResolve(u, r)
    \/ \E e \in Errors : LoginReject(u, e)
    \/ LogoutCall(u)
    \/ \E s \in {"ok"} \cup Errors : LogoutSettle(u, s)

SpecLogin == Init /\ [][NextLogin]_vars

\* Two sessions of one context logging in and signing up concurrently.
NextRace ==
  /\ UNCHANGED kinvey
  /\ \E u \in Users :
    \/ \E in \in LoginInputs : LoginCall(u, in[1], in[2])
    \/ \E r \in UserRecords(loc[u].req) : LoginResolve(u, r)
    \/ \E e \in Errors : LoginReject(u, e)
    \/ \E p \in SignupInputs, st \in BOOLEAN : SignupCall(u, p, st)
    \/ SignupStart(u)
    \/ \E r \in UserRecords(loc[u].req) : SignupResolve(u, r)
    \/ \E e \in Errors : SignupReject(u, e)

SpecRace == Init /\ [][NextRace]_vars

\* The session data `new User(data)` is built around in the runs that link
\* identities: none, an empty identity entry, and sessions authenticated
\* through an identity.
LinkInits ==
  {EmptyData,
   [EmptyData EXCEPT !.si = [EmptyMap EXCEPT !["kinveyAuth"] = ""]],
   [EmptyData EXCEPT !.si = [EmptyMap EXCEPT !["kinveyAuth"] = "k1",
                                             !["activeIdentity"] = "kinveyAuth"]],
   [EmptyData EXCEPT !.si = [EmptyMap EXCEPT !["facebook"] = "k1",
                                             !["activeIdentity"] = "facebook"]]}

InitLink ==
  /\ \E d \in LinkInits :
       data = [u \in Users |-> IF u \in Linkers THEN d ELSE EmptyData]
  /\ pc = [u \in Users |-> "idle"]
  /\ loc = [u \in Users |-> Idle]
  /\ activeUserData = [c \in Clients |-> Null]
  /\ activeSocialIdentity = [c \in Clients |-> Null]
  /\ calls = 0
  /\ kinvey = KinveyLoaded(Null)
  /\ last = Event("init", "u1", "ok", None, NoRequest, Null)

\* options.redirectUri and options.client of a connect call: absent or set.
Metas == {None, "r1"}

\* The identities connectWithIdentity is asked for: none, a supported one and
\* one outside the supported set.
CwiIdentities == {None, "facebook", "kinveyAuth"}

\* One session linking and unlinking identities through every entry point.
NextLink ==
  /\ UNCHANGED kinvey
  /\ \E u \in Linkers :
    \/ \E p \in Providers, t \in IdentityTokens, st \in BOOLEAN, m \in Metas :
         ConnectCall(u, p, t, st, m)
    \/ ConnectStart(u)
    \/ \E r \in UserRecords(loc[u].req) : ConnectLoginResolve(u, r)
    \/ \E e \in Errors : ConnectReject(u, e)
    \/ ConnectSignupStart(u)
    \/ \E r \in UserRecords(loc[u].req) : ConnectSignupResolve(u, r)
    \/ \E e \in Errors : ConnectSignupReject(u, e)
    \/ ConnectUpdateResolve(u)
    \/ \E p \in Providers : DisconnectCall(u, p)
    \/ DisconnectStart(u)
    \/ DisconnectUpdateResolve(u)
    \/ \E e \in Errors : DisconnectUpdateReject(u, e)
    \/ \E r \in Metas : MicCall(u, r)
    \/ \E t \in MicTokens : MicResolve(u, t)
    \/ \E e \in Errors : MicReject(u, e)
    \/ RefreshCall(u)
    \/ \E t \in MicTokens : RefreshResolve(u, t)
    \/ \E e \in Errors : RefreshReject(u, e)
    \/ \E i \in CwiIdentities, h \in BOOLEAN : CwiCall(u, i, h)
    \/ CwiStart(u)
    \/ \E n \in 0..MaxRecords : CwiQueryResolve(u, n)
    \/ \E e \in Errors : CwiQueryReject(u, e)
    \/ \E t \in IdentityTokens : CwiBridgeResolve(u, t)
    \/ \E e \in Errors : CwiBridgeReject(u, e)

SpecLink == InitLink /\ [][NextLink]_vars

\* The record of a session that was active when the application last ran.
Restored ==
  [_id |-> "i1", authtoken |-> "T1", username |-> Str(<<"b">>),
   password |-> Undef, si |-> NoMap]

\* Start-up with or without a stored active user in each context; the first
\* object is the one User.getActiveUser() returns for the shared context.
InitSession ==
  /\ activeUserData \in [Clients -> {Null, Restored}]
  /\ data = [u \in Users |->
               IF u \in Linkers
                  /\ getActiveUser(activeUserData, sharedInstance) # Null
               THEN getActiveUser(activeUserData, sharedInstance)
               ELSE EmptyData]
  /\ pc = [u \in Users |-> "idle"]
  /\ loc = [u \in Users |-> Idle]
  /\ activeSocialIdentity = [c \in Clients |-> Null]
  /\ calls = 0
  /\ kinvey = KinveyLoaded(Null)
  /\ last = Event("init", "u1", "ok", None, NoRequest, Null)

\* Two sessions and two contexts: logout, profile refresh and setActiveUser.
NextSession ==
  /\ UNCHANGED kinvey
  /\ \E u \in Users :
    \/ LogoutCall(u)
    \/ \E s \in {"ok"} \cup Errors : LogoutSettle(u, s)
    \/ MeCall(u)
    \/ \E r \in MeRecords(data[u]) : MeResolve(u, r)
    \/ \E e \in Errors : MeReject(u, e)
    \/ \E c \in Clients : SetActiveUser(u, c)
    \/ \E c \in Clients : ClearActiveUser(u, c)

SpecSession == InitSession /\ [][NextSession]_vars

\* Two session objects of one context logging out, logging in and refreshing
\* their profile, starting with or without a restored active user.
NextRelogin ==
  /\ UNCHANGED kinvey
  /\ \E u \in Users :
    \/ \E in \in LoginInputs : LoginCall(u, in[1], in[2])
    \/ \E r \in UserRecords(loc[u].req) : LoginResolve(u, r)
    \/ \E e \in Errors : LoginReject(u, e)
    \/ LogoutCall(u)
    \/ \E s \in {"ok"} \cup Errors : LogoutSettle(u, s)
    \/ MeCall(u)
    \/ \E r \in MeRecords(data[u]) : MeResolve(u, r)
    \/ \E e \in Errors : MeReject(u, e)

SpecRelogin == InitSession /\ [][NextRelogin]_vars

\* The library is loaded with or without an 'activeUser' storage entry left
\* by an earlier run.
InitLegacy ==
  /\ data = [u \in Users |-> EmptyData]
  /\ pc = [u \in Users |-> "idle"]
  /\ loc = [u \in Users |-> Idle]
  /\ activeUserData = [c \in Clients |-> Null]
  /\ activeSocialIdentity = [c \in Clients |-> Null]
  /\ calls = 0
  /\ kinvey \in {KinveyLoaded(stored) : stored \in {Null} \cup KinveyUsers}
  /\ last = Event("init", "app", "ok", None, NoRequest, Null)

\* What the application hands Kinvey.setActiveUser: null, a user, and a user
\* without authtoken.
KinveySetInputs ==
  {Null} \cup KinveyUsers \cup {[_id |-> "i1", authtoken |-> None]}

\* The legacy global API: overlapping calls of Kinvey.init, and the
\* application reading and setting the active user at any moment.
NextLegacy ==
  \/ \E i \in Inits : KinveyInit(i)
  \/ \E i \in Inits : KinveySyncResolve(i)
  \/ \E i \in Inits : restoreActiveUser(i)
  \/ \E i \in Inits : KinveyMeResolve(i)
  \/ \E i \in Inits, e \in KinveyErrors : KinveyMeReject(i, e)
  \/ \E user \in KinveySetInputs : KinveySetActiveUser(user)
  \/ KinveyGetActiveUser

SpecLegacy == InitLegacy /\ [][NextLegacy]_vars

\* ------------------------------------------------------------------ claims

\* The sessions that report themselves active on the shared client.
ActiveSessions == {u \in Users : isActive(activeUserData, data[u])}

\* The object a login call was given, as the caller wrote it.
InputObject(in) ==
  IF isObject(in.usernameOrData)
  THEN in.usernameOrData
  ELSE [EmptyData EXCEPT !.username = in.usernameOrData,
                         !.password = in.password]

\* A username or password that is missing or empty once trimmed.
Blank(x) == x.undef \/ trim(x.s) = <<>>

\* Credentials with neither (username and password) nor an identity map.
LacksCredentials(in) ==
  LET o == InputObject(in)
  IN (Blank(o.username) \/ Blank(o.password)) /\ o.si = NoMap

C2_SerializedPromotion ==
  [][(last'.op \in {"login", "signup"} /\ last'.outcome = "ok"
        /\ last'.ret = "activeUser")
       => activeUserData[sharedInstance] = Null]_vars

\* C3: a login called while this or any other session is the active user is
\* rejected with ActiveUserError; it sends no request and leaves the data of
\* every session and the active user as they were.
C3_LoginConflict ==
  [][\A u \in Users :
       (pc[u] = "idle" /\ last'.op = "login" /\ last'.user = u
          /\ last'.input # Null
          /\ (isActive(activeUserData, data[u])
                \/ getActiveUser(activeUserData, sharedInstance) # Null))
       => (last'.outcome = "ActiveUserError" /\ last'.sent = "none"
             /\ pc'[u] = "idle" /\ data' = data
             /\ activeUserData' = activeUserData)]_vars

C3_Witness ==
  /\ last.op = "login" /\ last.outcome = "ActiveUserError"
  /\ getActiveUser(activeUserData, sharedInstance) # Null
  /\ ~isActive(activeUserData, data[last.user])

\* C4 as claimed: in every state of the context a login whose credentials
\* lack both (username and password) and an identity map is rejected with the
\* KinveyError for missing credentials and sends no request.
C4_AlwaysInvalidCredentials ==
  (last.input # Null /\ LacksCredentials(last.input))
    => (last.outcome = "KinveyError" /\ last.sent = "none")

\* C4 as amended: such a login sends no request and is always rejected, with
\* the KinveyError for missing credentials when the context has no active
\* user and with ActiveUserError when it has one.
C4_RejectedWithoutRequest ==
  (last.input # Null /\ LacksCredentials(last.input))
    => /\ last.sent = "none"
       /\ pc[last.user] = "idle"
       /\ last.outcome =
            IF getActiveUser(activeUserData, sharedInstance) = Null
            THEN "KinveyError" ELSE "ActiveUserError"

C4_Witness ==
  /\ last.input # Null /\ LacksCredentials(last.input)
  /\ InputObject(last.input).username = Str(<<" ">>)
  /\ last.outcome = "KinveyError"

\* C5: when a login succeeds, the session's data is the record the server
\* returned and User.getActiveUser returns a user with the _id of that record.
C5_LoginPromotes ==
  (last.op = "login" /\ last.outcome = "ok")
    => /\ data[last.user] = last.resp
       /\ getActiveUser(activeUserData, sharedInstance) # Null
       /\ getActiveUser(activeUserData, sharedInstance)._id = last.resp._id

C5_Witness ==
  /\ last.op = "login" /\ last.outcome = "ok"
  /\ last.resp._id = "i2"
  /\ \E v \in Users : v # last.user /\ data[v]._id = "i1"

\* C6: the login request carries the username and password trimmed, a
\* username or password that is empty after trimming is rejected without a
\* request, and a payload with a _socialIdentity map is sent as supplied.
C6_TrimmedUnlessSocial ==
  last.input # Null =>
    LET o == InputObject(last.input)
        req == loc[last.user].req
    IN IF o.si # NoMap
       THEN last.sent = "login" => req = o
       ELSE /\ last.sent = "login" =>
                 /\ ~Blank(o.username) /\ ~Blank(o.password)
                 /\ req = [o EXCEPT !.username = Str(trim(o.username.s)),
                                    !.password = Str(trim(o.password.s))]
            /\ (Blank(o.username) \/ Blank(o.password)) =>
                 /\ last.sent = "none"
                 /\ last.outcome \in {"KinveyError", "ActiveUserError"}

C6_Witness ==
  /\ last.input # Null /\ last.sent = "login"
  /\ LET o == InputObject(last.input)
     IN /\ o.si = NoMap
        /\ o.username.s # trim(o.username.s)
        /\ o.password.s # trim(o.password.s)

\* C7: a step of login, signup or me other than the handling of a successful
\* response changes neither the data of any session, nor the active user,
\* nor the identity pointer; when the request fails the session's data is
\* the data it had when the operation was called.
C7_NoCommitOnFailure ==
  [][\A u \in Users :
       (last'.user = u /\ last'.op \in {"login", "signup", "me"})
       => /\ last'.outcome # "ok" =>
               /\ data' = data
               /\ activeUserData' = activeUserData
               /\ activeSocialIdentity' = activeSocialIdentity
          /\ last'.outcome \in Errors => data'[u] = loc[u].snap]_vars

C7_Witness ==
  /\ last.op \in {"login", "signup", "me"}
  /\ last.outcome \in Errors
  /\ data[last.user]._id # None
  /\ getActiveUser(activeUserData, sharedInstance) # Null

\* C8: when connect or disconnect ends in a failed or timed-out request, the
\* session's data, its _socialIdentity map included, is the data it had when
\* the operation was called.
C8_NoPartialCommit ==
  [][\A u \in Users :
       (last'.user = u /\ last'.op \in {"connect", "disconnect"}
          /\ last'.outcome \in Errors)
       => data'[u] = loc[u].snap]_vars

C10_LogoutAlwaysCompletes ==
  [][\A u \in Users :
       (pc[u] = "logout_wait" /\ last'.op = "logout" /\ last'.user = u)
       => /\ last'.outcome = "ok" /\ last'.ret = "this"
          /\ pc'[u] = "idle"
          /\ isActive(activeUserData, data[u]) =>
               getActiveUser(activeUserData', sharedInstance) = Null]_vars

C10_Witness ==
  /\ last.op = "logout" /\ last.outcome = "ok"
  /\ last.resp.kind \in Errors
  /\ getActiveUser(activeUserData, sharedInstance) = Null

\* C11: a signup with options.state true whose check finds an active user is
\* rejected with ActiveUserError, sends no request and leaves the active user
\* as it was; when such a signup succeeds, the session's data is the record
\* returned and the session is the active user.
C11_SignupPromotes ==
  [][\A u \in Users :
       (last'.user = u /\ last'.op = "signup" /\ loc[u].state = TRUE)
       => /\ (pc[u] = "signup_start"
                /\ getActiveUser(activeUserData, sharedInstance) # Null)
              => /\ last'.outcome = "ActiveUserError" /\ last'.sent = "none"
                 /\ pc'[u] = "idle"
                 /\ activeUserData' = activeUserData
          /\ (pc[u] = "signup_start"
                /\ getActiveUser(activeUserData, sharedInstance) = Null)
              => last'.sent = "signup"
          /\ (pc[u] = "signup_wait" /\ last'.outcome = "ok")
              => /\ data'[u] = last'.resp
                 /\ getActiveUser(activeUserData', sharedInstance) = last'.resp
                 /\ isActive(activeUserData', data'[u])]_vars

C11_Witness ==
  /\ last.op = "signup" /\ last.outcome = "ActiveUserError"
  /\ getActiveUser(activeUserData, sharedInstance) # Null
  /\ ~isActive(activeUserData, data[last.user])

\* C12: a login called right after a signup has succeeded and promoted its
\* session is rejected with ActiveUserError and sends no request, whichever
\* session object calls it.
C12_LoginAfterSignup ==
  [][(last.op = "signup" /\ last.outcome = "ok" /\ last.ret = "activeUser"
        /\ last'.op = "login" /\ last'.input # Null)
       => (last'.outcome = "ActiveUserError" /\ last'.sent = "none"
             /\ activeUserData' = activeUserData)]_vars

\* Only signup() without data yields a stored record with an _id but neither
\* a username nor an identity map.
C12_Witness ==
  /\ last.op = "login" /\ last.outcome = "ActiveUserError"
  /\ calls = 2
  /\ getActiveUser(activeUserData, sharedInstance) # Null
  /\ getActiveUser(activeUserData, sharedInstance).username = Undef
  /\ getActiveUser(activeUserData, sharedInstance).si = NoMap
  /\ data[last.user]._id = None

\* C13: a signup with options.state false sends its request whether or not a
\* user is active, and when it succeeds the session's data is the record
\* returned, the promise resolves with this session and the active user is
\* the one it was.
C13_SignupNoPromote ==
  [][\A u \in Users :
       (last'.user = u /\ last'.op = "signup" /\ loc[u].state = FALSE)
       => /\ pc[u] = "signup_start"
              => (last'.sent = "signup" /\ activeUserData' = activeUserData)
          /\ (pc[u] = "signup_wait" /\ last'.outcome = "ok")
              => /\ data'[u] = last'.resp
                 /\ last'.ret = "this"
                 /\ activeUserData' = activeUserData]_vars

C13_Witness ==
  /\ last.op = "signup" /\ last.outcome = "ok" /\ last.ret = "this"
  /\ getActiveUser(activeUserData, sharedInstance) # Null
  /\ getActiveUser(activeUserData, sharedInstance)._id # data[last.user]._id

\* C14: the stored active user of every client has an _id, and no session
\* without an _id reports itself active.
C14_ActiveHasId ==
  /\ \A c \in Clients :
       activeUserData[c] # Null => activeUserData[c]._id # None
  /\ \A u \in Users :
       isActive(activeUserData, data[u]) => data[u]._id # None

\* C15: when me succeeds, the session's data is what is stored as the active
\* user; it carries the authtoken of the response when the response has one,
\* and the authtoken of the user that was active before when it has none.
C15_MeKeepsToken ==
  [][\A u \in Users :
       (pc[u] = "me_wait" /\ last'.user = u /\ last'.op = "me"
          /\ last'.outcome = "ok")
       => LET prior == getActiveUser(activeUserData, sharedInstance)
              r == last'.resp
          IN /\ getActiveUser(activeUserData', sharedInstance) = data'[u]
             /\ data'[u]._id = r._id
             /\ r.authtoken # None => data'[u].authtoken = r.authtoken
             /\ (r.authtoken = None /\ prior # Null)
                  => data'[u].authtoken = prior.authtoken]_vars

C15_Witness ==
  /\ last.op = "me" /\ last.outcome = "ok"
  /\ last.resp.authtoken = None
  /\ data[last.user].authtoken = "T1"
  /\ getActiveUser(activeUserData, sharedInstance).authtoken = "T1"

\* C16: the authtoken stored for the active user is the authtoken that every
\* session with an _id that reports itself active carries in memory.
C16_StoredTokenInSync ==
  \A u \in Users :
    (data[u]._id # None /\ isActive(activeUserData, data[u]))
    => getActiveUser(activeUserData, sharedInstance).authtoken
         = data[u].authtoken

\* C17: a connect call never sends more signup requests than it has caught
\* NotFoundError answers, nor calls itself more often than it has signed up;
\* a connect that was answered NotFoundError once and succeeds has sent
\* exactly one signup request and called itself again exactly once.
C17_OneSignupOneRetry ==
  /\ \A u \in Users :
       loc[u].signups <= loc[u].notFounds /\ loc[u].retries <= loc[u].signups
  /\ (last.op = "connect" /\ last.outcome = "ok" /\ last.notFounds = 1)
       => (last.signups = 1 /\ last.retries = 1)

C17_Witness ==
  /\ last.op = "connect" /\ last.outcome = "ok"
  /\ last.notFounds = 1 /\ last.signups = 1 /\ last.retries = 1
  /\ isActive(activeUserData, data[last.user])

\* C18: one connect call sends at most one signup request and calls itself
\* again at most once, whatever the backend answers and whatever options it
\* was given.
C18_AtMostOneHop ==
  \A u \in Users : loc[u].signups <= 1 /\ loc[u].retries <= 1

\* The error a step handled, None when it handled none.
ErrorOf(e) == IF "kind" \in DOMAIN e.resp THEN e.resp.kind ELSE None

\* C19: connect starts its signup recovery only on a NotFoundError answer to
\* its login or update; any other error of that step, an error of the checks
\* of login, save and signup, and any error answer to the recovery signup end
\* the call with exactly that error and without a further request.
C19_OnlyNotFoundRecovers ==
  [][\A u \in Users :
       (last'.user = u /\ last'.op = "connect" /\ loc[u].op = "connect")
       => /\ pc'[u] = "connect_signup_start"
              => /\ pc[u] \in {"connect_login_wait", "connect_update_wait"}
                 /\ ErrorOf(last') = "NotFoundError"
          /\ (pc[u] \in {"connect_login_wait", "connect_update_wait"}
                /\ ErrorOf(last') \in Errors \ {"NotFoundError"})
              => /\ pc'[u] = "idle" /\ last'.outcome = ErrorOf(last')
                 /\ last'.sent = "none"
                 /\ loc[u].signups = last'.signups
          /\ (pc[u] = "connect_start" /\ last'.sent = "none")
              => /\ pc'[u] = "idle"
                 /\ last'.outcome \in {"ActiveUserError", "KinveyError"}
          /\ (pc[u] = "connect_signup_start" /\ last'.sent = "none")
              => (pc'[u] = "idle" /\ last'.outcome = "ActiveUserError")
          /\ (pc[u] = "connect_signup_wait" /\ ErrorOf(last') # None)
              => /\ pc'[u] = "idle" /\ last'.outcome = ErrorOf(last')
                 /\ last'.sent = "none"]_vars

C19_Witness ==
  /\ last.op = "connect" /\ last.outcome = "NetworkError"
  /\ last.notFounds = 0 /\ last.signups = 0
  /\ pc[last.user] = "idle"

\* C20: the step of connect that finds its session active sends an update,
\* never a login; the payload of the update has the entry of the connected
\* provider as merged, keeps every other entry whose token is empty and has
\* no other entry with a non-empty token.
C20_ActiveConnectUpdates ==
  [][\A u \in Users :
       (pc[u] = "connect_start" /\ last'.user = u /\ last'.op = "connect"
          /\ isActive(activeUserData, data[u]))
       => /\ last'.sent = "update"
          /\ LET req == loc'[u].req.si
                 cur == data[u].si
             IN /\ req[loc[u].identity] = cur[loc[u].identity]
                /\ \A p \in Providers \ {loc[u].identity} :
                     /\ ~TokenTruthy(req[p])
                     /\ cur[p] = "" => req[p] = ""]_vars

\* The steps of a connect call of u, whichever operation called connect.
ConnectStep(u) ==
  /\ pc[u] \in {"connect_start", "connect_login_wait", "connect_update_wait",
                "connect_signup_start", "connect_signup_wait"}
  /\ last'.op = "connect" /\ last'.user = u

\* C21: when a connect call ends in success the context's identity pointer
\* holds the connected provider, the session's token for that provider and
\* the redirectUri/client of the caller's options; every step of connect or
\* loginWithMIC that does not end in success leaves the pointer as it was.
C21_ConnectPointer ==
  [][\A u \in Users :
       /\ (ConnectStep(u) /\ last'.outcome = "ok") =>
            activeSocialIdentity'[sharedInstance] =
              [identity |-> loc[u].identity,
               token |-> data'[u].si[loc[u].identity],
               meta |-> loc[u].meta]
       /\ (/\ last'.user = u
           /\ last'.op \in {"connect", "loginWithMIC"}
           /\ last'.outcome # "ok") =>
            activeSocialIdentity' = activeSocialIdentity]_vars

C21_Witness ==
  /\ last.op = "connect" /\ last.outcome = "ok" /\ last.retries = 1
  /\ activeSocialIdentity[sharedInstance] =
       [identity |-> micIdentity, token |-> "k2", meta |-> "r1"]

\* C22: disconnect(provider) deletes that provider's entry from the session's
\* identities and keeps every other entry, both at the call and when it has
\* succeeded; a successful disconnect clears the context's identity pointer
\* exactly when the pointer named that provider.
C22_DisconnectRemoves ==
  [][\A u \in Users :
       /\ (last'.op = "disconnect" /\ last'.user = u /\ pc[u] = "idle") =>
            /\ data'[u].si[loc'[u].identity] = Absent
            /\ \A k \in Keys \ {loc'[u].identity} :
                 data'[u].si[k] = siOrEmpty(data[u].si)[k]
       /\ (/\ last'.op = "disconnect" /\ last'.user = u
           /\ pc[u] # "idle" /\ last'.outcome = "ok") =>
            LET named == IF activeSocialIdentity[sharedInstance] = Null
                         THEN None
                         ELSE activeSocialIdentity[sharedInstance].identity
            IN /\ data'[u].si[loc[u].identity] = Absent
               /\ \A k \in Keys \ {loc[u].identity} :
                    data'[u].si[k] = siOrEmpty(loc[u].snap.si)[k]
               /\ activeSocialIdentity' =
                    IF named = loc[u].identity
                    THEN [activeSocialIdentity EXCEPT ![sharedInstance] = Null]
                    ELSE activeSocialIdentity]_vars

C22_Witness ==
  /\ last.op = "disconnect" /\ last.outcome = "ok"
  /\ activeSocialIdentity[sharedInstance] = Null
  /\ data[last.user].si["facebook"] = Absent
  /\ data[last.user].si["kinveyAuth"] = ""

\* C23: the deferred step of disconnect on a session without _id succeeds and
\* sends no request, whatever the context's identity pointer is, unset
\* included; on a session with an _id it sends one update.
C23_LocalDisconnectSucceeds ==
  [][\A u \in Users :
       (last'.op = "disconnect" /\ last'.user = u
        /\ pc[u] = "disconnect_start") =>
         IF data[u]._id = None
         THEN last'.outcome = "ok" /\ last'.sent = "none"
         ELSE last'.outcome = "pending" /\ last'.sent = "update"]_vars

\* C24: refreshAuthToken of a session whose active identity is not the MIC
\* identity fails with the error of an unsupported identity, calls no
\* connect and changes nothing; when the refresh routine delivers a token,
\* connect is called for the same identity with that token; when the routine
\* fails, connect is not called and nothing changes.
C24_RefreshDispatch ==
  [][\A u \in Users :
       (last'.op = "refreshAuthToken" /\ last'.user = u) =>
         LET si == data[u].si
             unchanged ==
               /\ data' = data /\ activeUserData' = activeUserData
               /\ activeSocialIdentity' = activeSocialIdentity
         IN /\ (/\ pc[u] = "idle" /\ si # NoMap
                /\ si["activeIdentity"] # micIdentity) =>
                 /\ last'.outcome = "KinveyError" /\ last'.sent = "none"
                 /\ pc'[u] = "idle" /\ unchanged
            /\ (/\ pc[u] = "idle" /\ si # NoMap
                /\ si["activeIdentity"] = micIdentity) =>
                 /\ last'.sent = "refresh" /\ pc'[u] = "refresh_wait"
                 /\ unchanged
            /\ (pc[u] = "refresh_wait" /\ last'.resp.kind = "token") =>
                 /\ pc'[u] = "connect_start"
                 /\ loc'[u].op = "connect"
                 /\ loc'[u].identity = micIdentity
                 /\ loc'[u].token = last'.resp.token
                 /\ data'[u].si[micIdentity] = last'.resp.token
            /\ (pc[u] = "refresh_wait" /\ last'.resp.kind # "token") =>
                 /\ pc'[u] = "idle" /\ last'.outcome = last'.resp.kind
                 /\ unchanged]_vars

\* The refresh routine has delivered a new token and connect has been called
\* with it for the MIC identity.
C24_Witness ==
  /\ last.op = "refreshAuthToken" /\ last.outcome = "pending"
  /\ pc[last.user] = "connect_start"
  /\ loc[last.user].identity = micIdentity
  /\ loc[last.user].token = "k2"
  /\ data[last.user].si[micIdentity] = "k2"

\* C25: connectWithIdentity for an identity that is missing, or outside the
\* supported set, or asked for while the bridge library is not loaded, fails
\* with the error of an unsupported identity in its first deferred step: no
\* request is sent, no bridge login is started, connect is not called and
\* nothing changes.
C25_UnsupportedFailsEarly ==
  [][\A u \in Users :
       (/\ last'.op = "connectWithIdentity" /\ last'.user = u
        /\ pc[u] = "cwi_start"
        /\ \/ loc[u].identity = None
           \/ loc[u].identity \notin {"facebook", "google", "linkedIn"}
           \/ ~loc[u].hello) =>
         /\ last'.outcome = "KinveyError" /\ last'.sent = "none"
         /\ pc'[u] = "idle"
         /\ data' = data /\ activeUserData' = activeUserData
         /\ activeSocialIdentity' = activeSocialIdentity]_vars

\* A supported identity was refused because the bridge library is missing.
C25_Witness ==
  /\ last.op = "connectWithIdentity" /\ last.outcome = "KinveyError"
  /\ last.input = [identity |-> "facebook", hello |-> FALSE]

\* C26: connectWithIdentity starts the bridge login only when the Identities
\* query returned exactly one record; with none or several it fails with an
\* error, starts no bridge login, does not call connect and changes nothing;
\* connect is called only by the step that handles the bridge's answer.
C26_ExactlyOneRecord ==
  [][\A u \in Users :
       /\ (/\ last'.op = "connectWithIdentity" /\ last'.user = u
           /\ pc[u] = "cwi_query_wait" /\ last'.resp.kind = "records") =>
            IF last'.resp.n = 1
            THEN /\ last'.sent = "bridge" /\ pc'[u] = "cwi_bridge_wait"
                 /\ data' = data
            ELSE /\ last'.outcome = "KinveyError" /\ last'.sent = "none"
                 /\ pc'[u] = "idle"
                 /\ data' = data /\ activeUserData' = activeUserData
                 /\ activeSocialIdentity' = activeSocialIdentity
       /\ (/\ last'.op = "connectWithIdentity" /\ last'.user = u
           /\ pc'[u] = "connect_start") =>
            pc[u] = "cwi_bridge_wait"]_vars

\* The query returned two records and the operation failed.
C26_Witness ==
  /\ last.op = "connectWithIdentity" /\ last.outcome = "KinveyError"
  /\ last.resp = [kind |-> "records", n |-> 2]

\* C28: the steps of loginWithMIC that do not deliver a token (the call
\* itself and the failure of the redirect flow) change neither the session's
\* data nor the active user nor the identity pointer; connect is entered
\* only by the step that handles the token the flow delivered, with that
\* token.
C28_MicFlowFrame ==
  [][\A u \in Users :
       (last'.op = "loginWithMIC" /\ last'.user = u) =>
         /\ pc'[u] # "connect_start" =>
              /\ data' = data /\ activeUserData' = activeUserData
              /\ activeSocialIdentity' = activeSocialIdentity
         /\ pc'[u] = "connect_start" =>
              /\ pc[u] = "mic_wait"
              /\ last'.resp # Null /\ last'.resp.kind = "token"
              /\ loc'[u].token = last'.resp.token
              /\ activeUserData' = activeUserData
              /\ activeSocialIdentity' = activeSocialIdentity]_vars

\* The flow failed on a context that had an active session and a pointer.
C28_Witness ==
  /\ last.op = "loginWithMIC" /\ last.outcome \in Errors
  /\ pc[last.user] = "idle"
  /\ activeUserData[sharedInstance] # Null
  /\ activeSocialIdentity[sharedInstance] # Null

\* C30: when the update of a connect call on an active session fails, with
\* NotFoundError or any other error, the call ends there with that error:
\* no signup recovery is started.
C30_UpdateErrorPassedOn ==
  [][\A u \in Users :
       (/\ last'.op = "connect" /\ last'.user = u
        /\ pc[u] = "connect_update_wait"
        /\ ErrorOf(last') \in Errors) =>
         /\ pc'[u] = "idle"
         /\ last'.outcome = ErrorOf(last')]_vars

\* C27: setActiveUser(user, client) replaces the stored active user of that
\* client by the user's data, with nothing kept of the record stored before,
\* and returns what getActiveUser then reads, which is that data;
\* setActiveUser(null, client) leaves getActiveUser returning null; the
\* stored active user of every other client is unchanged.
C27_SetActiveOverwrites ==
  [][last'.op = "setActiveUser" =>
       LET c == last'.client
           given == IF last'.ret = "null" THEN Null ELSE data[last'.user]
       IN /\ getActiveUser(activeUserData', c) = given
          /\ last'.resp = given
          /\ \A o \in Clients \ {c} :
               activeUserData'[o] = activeUserData[o]]_vars

\* A session without username replaced the restored record of the second
\* client while the shared client kept its own.
C27_Witness ==
  /\ last.op = "setActiveUser" /\ last.client = "c2"
  /\ calls = 1
  /\ activeUserData["c2"] = EmptyData
  /\ activeUserData["c1"] = Restored

\* C29: when the logout request of a session settles while the stored active
\* user of the context has another _id, the stored active user is left as
\* it is.
C29_LogoutClearsOwnOnly ==
  [][\A u \in Users :
       (/\ last'.op = "logout" /\ last'.user = u
        /\ pc[u] = "logout_wait"
        /\ activeUserData[sharedInstance] # Null
        /\ activeUserData[sharedInstance]._id # data[u]._id) =>
         activeUserData' = activeUserData]_vars

\* A logout has settled and another session, made active by its profile
\* refresh while the request was in flight, is still the active one.
C29_Witness ==
  /\ last.op = "logout" /\ last.outcome = "ok"
  /\ data[last.user]._id = "i1"
  /\ activeUserData[sharedInstance] # Null
  /\ activeUserData[sharedInstance]._id = "i2"

InitPending ==
  \E i \in Inits : kinvey.init[i].pc \in {"sync", "get", "me"}

InitSettled ==
  \E i \in Inits : kinvey.init[i].pc \in {"fulfilled", "rejected"}

C33_RejectedUserReset ==
  [][\A i \in Inits :
       (/\ last'.op = "Kinvey.init" /\ last'.user = i
        /\ kinvey.init[i].pc = "me"
        /\ last'.outcome = "InvalidCredentials") =>
         LET rejected == kinvey.init[i].user
         IN /\ kinvey'.activeUser = Null
               \/ kinvey'.activeUser._id # rejected._id
            /\ kinvey'.storage = Null
               \/ kinvey'.storage._id # rejected._id]_vars

====
